---- MODULE Spec2Model ----
(***************************************************************************)
(* Model of stencil_code/stencil_kernel.py.                                *)
(*                                                                         *)
(* StencilKernel.__new__ returns, for the compiled backends, a             *)
(* SpecializedStencil: that object is the specialization controller.  A    *)
(* call on it goes through the inherited lazy call (documented in the      *)
(* docstring of SpecializedStencil.__init__): args_to_subconfig derives    *)
(* the configuration, the concrete function held for that configuration    *)
(* is loaded, or transform + finalize generate a new one, and the concrete *)
(* function is called with the caller's arguments.  The lazy call itself   *)
(* lives in the ctree library; its one-slot reuse rule is taken from the   *)
(* design document (section 4.2).                                          *)
(*                                                                         *)
(* StencilKernel.shadow_kernel is not reachable: the line that installs it *)
(* (stencil_kernel.py:391) is commented out, and its first branch reads    *)
(* self.pure_python, which is the bound method pure_python.                *)
(*                                                                         *)
(* Specifications: Spec (all compiled backends, no device failure),        *)
(* SpecFail (GPU backend, construction and program build may fail),        *)
(* SpecDevFail (GPU backend, device errors inside a call), SpecPure        *)
(* (interior_points, the global size and the constructors evaluated on     *)
(* their own) and SpecFrontend (stencil_python_frontend.py run on trees).  *)
(***************************************************************************)
EXTENDS Integers, Sequences, FiniteSets, TLC

(* ---------------- bounds ---------------- *)
MaxCalls == 3
MaxGhost == 1
MaxFailures == 1

(* ---------------- program constants ---------------- *)
NoArr == 0
LocalGpu == 8
LocalOther == 1
SizeofCFloat == 4

(* ---------------- the caller's arrays ---------------- *)
\* Arrays 1 and 2 differ only in identity and data, 3 differs from 1 in
\* dtype only, 4 differs from 1 in shape only.
InputArrays ==
  << [dtype |-> "float32", shape |-> <<10, 10>>],
     [dtype |-> "float32", shape |-> <<10, 10>>],
     [dtype |-> "float64", shape |-> <<10, 10>>],
     [dtype |-> "float32", shape |-> <<4, 4>>] >>

InputIds == 1 .. Len(InputArrays)
OutId == Len(InputArrays) + 1
ArrIds == 1 .. OutId

Backends == {"c", "omp", "ocl"}

\* Argument tuples a caller passes: at least one array, all of one rank.
ArgTuples ==
  { <<1>>, <<2>>, <<3>>, <<4>>, <<1, 2>>, <<1, 3>>, <<1, 2, 3>> }

VARIABLES
  backend,      \* SpecializedStencil.backend (name of the backend)
  ghost_depth,  \* kernel.ghost_depth
  device,       \* type of devices[-1] on this platform
  heap,         \* host arrays: id -> [dtype, shape, data]
  args,         \* SpecializedStencil.args
  output,       \* SpecializedStencil.output (NoArr is None)
  specialized,  \* the held Compiled Specialization: its configuration and function
  fns,          \* concrete function objects
  nfns,         \* number of concrete function objects created
  builds,       \* number of completed builds (transform + finalize)
  calls,        \* number of calls made on the controller
  sameCfg,      \* every call so far had the configuration of the first call
  changes,      \* number of calls whose configuration differs from the call before
  lastCall,     \* record of the latest call
  prevCall,     \* record of the call before it
  pc,           \* position of the call in flight
  cur,          \* the call in flight
  bufs,         \* device buffers of the call in flight (host array each was made from)
  events,       \* upload events of the call in flight
  kevt,         \* kernel event of the call in flight
  devt,         \* download event of the call in flight
  dropped,      \* the controller has been dropped by its owner
  failures,     \* number of device-layer failures so far
  pure          \* the function under study outside a controller: input and result

vars == << backend, ghost_depth, device, heap, args, output, specialized, fns,
           nfns, builds, calls, sameCfg, changes, lastCall, prevCall, pc, cur,
           bufs, events, kevt, devt, dropped, failures, pure >>

(* ---------------- helpers ---------------- *)
Last(s) == s[Len(s)]

Front(s) == SubSeq(s, 1, Len(s) - 1)

RECURSIVE Power(_, _)
Power(b, e) == IF e = 0 THEN 1 ELSE b * Power(b, e - 1)

\* StencilArgConfig(size, dtype, ndim, shape)
StencilArgConfig(size, dtype, ndim, shape) ==
  [size |-> size, dtype |-> dtype, ndim |-> ndim, shape |-> shape]

\* len(arg) of an array is the extent of its first dimension
ArgLen(h, id) == h[id].shape[1]

args_to_subconfig_nodtype(h, a) ==
  [i \in 1..Len(a) |->
     StencilArgConfig(ArgLen(h, a[i]), "any", Len(h[a[i]].shape), h[a[i]].shape)]

args_to_subconfig_noshape(h, a) ==
  [i \in 1..Len(a) |->
     StencilArgConfig(0, h[a[i]].dtype, Len(h[a[i]].shape), <<>>)]

args_to_subconfig_count(h, a) ==
  [i \in 1..Len(a) |-> StencilArgConfig(0, "any", 0, h[a[1]].shape)]

args_to_subconfig_ident(h, a) ==
  [i \in 1..Len(a) |->
     StencilArgConfig(a[i], h[a[i]].dtype, Len(h[a[i]].shape), h[a[i]].shape)]

\* SpecializedStencil.args_to_subconfig: one descriptor per argument
args_to_subconfig(h, a) ==
  [i \in 1..Len(a) |->
     StencilArgConfig(ArgLen(h, a[i]), h[a[i]].dtype,
                      Len(h[a[i]].shape), h[a[i]].shape)]

\* SpecializedStencil.generate_output: the array already held, if any;
\* NoArr stands for "allocate np.zeros_like(args[0])"
generate_output(out, a) == IF out /= NoArr THEN out ELSE NoArr

\* np.zeros_like(args[0]) stored at OutId
ZerosLike(h, id) ==
  [h EXCEPT ![OutId] = [dtype |-> h[id].dtype, shape |-> h[id].shape,
                        data |-> "zeros"]]

\* global_size of SpecializedStencil.finalize
GlobalSize(cfg, g) ==
  [k \in 1..Len(cfg[1].shape) |-> cfg[1].shape[k] - 2 * g]

NoCall ==
  [n |-> 0, args |-> <<>>, miss |-> FALSE, before |-> 0, fn |-> 0,
   passed |-> <<>>, timing |-> FALSE, ret |-> NoArr, raised |-> FALSE,
   back |-> FALSE]

NoFn ==
  [kind |-> "none", output |-> NoArr, cfg |-> <<>>, dev |-> "none",
   context |-> "unset", queue |-> "unset", kernel |-> FALSE,
   global_size |-> <<>>, ghost |-> 0, slots |-> <<>>, local |-> <<>>,
   live |-> FALSE, delRaised |-> FALSE]

Idle == [fn |-> 0, args |-> <<>>, cfg |-> <<>>, miss |-> FALSE]

NoSpecialization == [cfg |-> <<>>, fn |-> 0]

\* no function is under study outside a controller
NoPure == [op |-> "none"]

TypeOK ==
  /\ backend \in Backends
  /\ ghost_depth \in 0..MaxGhost
  /\ device \in {"gpu", "cpu", "none"}
  /\ output \in {NoArr, OutId}
  /\ nfns \in 0..MaxCalls
  /\ builds \in 0..MaxCalls
  /\ calls \in 0..MaxCalls
  /\ sameCfg \in BOOLEAN
  /\ changes \in 0..MaxCalls
  /\ dropped \in BOOLEAN
  /\ failures \in 0..MaxFailures

Init ==
  /\ backend \in Backends
  /\ ghost_depth \in 0..MaxGhost
  /\ device \in (IF backend = "ocl" THEN {"gpu", "cpu"} ELSE {"none"})
  /\ heap = [id \in ArrIds |->
               IF id \in InputIds
                 THEN [dtype |-> InputArrays[id].dtype,
                       shape |-> InputArrays[id].shape, data |-> "in"]
                 ELSE [dtype |-> "none", shape |-> <<>>, data |-> "unalloc"]]
  /\ args = <<>>
  /\ output = NoArr
  /\ specialized = NoSpecialization
  /\ fns = [f \in 1..MaxCalls |-> NoFn]
  /\ nfns = 0
  /\ builds = 0
  /\ calls = 0
  /\ sameCfg = TRUE
  /\ changes = 0
  /\ lastCall = NoCall
  /\ prevCall = NoCall
  /\ pc = "idle"
  /\ cur = Idle
  /\ bufs = <<>>
  /\ events = <<>>
  /\ kevt = "none"
  /\ devt = "none"
  /\ dropped = FALSE
  /\ failures = 0
  /\ pure = NoPure

(* ---------------- the lazy call: reuse or rebuild ---------------- *)
\* Whether the held Compiled Specialization serves this configuration
Cached(held, cfg) == held.fn /= 0 /\ held.cfg = cfg

\* Per-argument (dtype, shape) of an argument tuple, read off the arrays
Descr(a) ==
  [i \in 1..Len(a) |-> << InputArrays[a[i]].dtype, InputArrays[a[i]].shape >>]

\* transform's call of generate_output: the heap after it
TransformHeap(h, out, a) ==
  IF generate_output(out, a) = NoArr THEN ZerosLike(h, a[1]) ELSE h

\* transform's call of generate_output: self.output after it
TransformOutput(out, a) ==
  IF generate_output(out, a) = NoArr THEN OutId ELSE generate_output(out, a)

\* nothing refers to runtime r any more (no call is in flight)
Unreachable(r) ==
  /\ fns[r].kind = "ocl" /\ fns[r].live
  /\ dropped \/ specialized.fn /= r
  /\ pc = "idle"

\* the call has the configuration of the call before the latest one
ComesBack(a) == prevCall.n >= 1 /\ Descr(prevCall.args) = Descr(a)

\* A call enters the controller: reference counting has destroyed every
\* runtime nothing refers to before control is back with the caller
BeginCall(a) ==
  /\ \A r \in 1..MaxCalls : ~Unreachable(r)
  /\ calls' = calls + 1
  /\ sameCfg' = (sameCfg /\ (calls = 0 \/ Descr(lastCall.args) = Descr(a)))
  /\ changes' = IF calls = 0 \/ Descr(lastCall.args) = Descr(a)
                  THEN changes ELSE changes + 1
  /\ prevCall' = lastCall
  /\ args' = a

(* ---------------- native wrapper (c, omp) ---------------- *)
\* StencilFunction.finalize
StencilFunction_finalize(out, cfg) ==
  [NoFn EXCEPT !.kind = "native", !.output = out, !.cfg = cfg, !.live = TRUE]

StencilFunction_call_first(f, a) ==
  [passed |-> <<f.output>> \o a, timing |-> TRUE, ret |-> a[1]]

\* StencilFunction.__call__: what reaches the compiled callable, and the result
StencilFunction_call(f, a) ==
  [passed |-> a \o <<f.output>>, timing |-> TRUE, ret |-> f.output]

\* SpecializedStencil.__call__ with backend c or omp: the whole call
LazyCallNative(a) ==
  /\ pc = "idle" /\ ~dropped /\ calls < MaxCalls
  /\ backend \in {"c", "omp"}
  /\ LET cfg  == args_to_subconfig(heap, a)
         miss == ~Cached(specialized, cfg)
         f    == IF miss THEN nfns + 1 ELSE specialized.fn
         h1   == IF miss THEN TransformHeap(heap, output, a) ELSE heap
         out1 == IF miss THEN TransformOutput(output, a) ELSE output
         fn   == IF miss THEN StencilFunction_finalize(out1, cfg) ELSE fns[f]
         r    == StencilFunction_call(fn, a)
     IN /\ BeginCall(a)
        /\ output' = out1
        /\ specialized' = [cfg |-> cfg, fn |-> f]
        /\ fns' = [fns EXCEPT ![f] = fn]
        /\ nfns' = IF miss THEN nfns + 1 ELSE nfns
        /\ builds' = IF miss THEN builds + 1 ELSE builds
        /\ heap' = [h1 EXCEPT ![fn.output].data = "out"]
        /\ lastCall' = [n |-> calls + 1, args |-> a, miss |-> miss,
                        before |-> builds, fn |-> f, passed |-> r.passed, timing |-> r.timing,
                        ret |-> r.ret, raised |-> FALSE,
                        back |-> ComesBack(a)]
  /\ UNCHANGED << backend, ghost_depth, device, pc, cur, bufs, events, kevt,
                  devt, dropped, failures, pure >>

(* ---------------- GPU runtime (ocl) ---------------- *)
\* SpecializedStencil.__call__ with backend ocl, up to the point where the
\* runtime is constructed (miss) or the held runtime is called (hit)
LazyCallOcl(a) ==
  /\ pc = "idle" /\ ~dropped /\ calls < MaxCalls
  /\ backend = "ocl"
  /\ bufs = <<>>
  /\ LET cfg  == args_to_subconfig(heap, a)
         miss == ~Cached(specialized, cfg)
         f    == IF miss THEN nfns + 1 ELSE specialized.fn
     IN /\ BeginCall(a)
        /\ IF miss
             THEN /\ heap' = TransformHeap(heap, output, a)
                  /\ output' = TransformOutput(output, a)
                  /\ specialized' = NoSpecialization
                  /\ fns' = [fns EXCEPT ![f] = [NoFn EXCEPT !.kind = "ocl",
                                                            !.live = TRUE]]
                  /\ nfns' = nfns + 1
                  /\ pc' = "init"
             ELSE /\ UNCHANGED << heap, output, specialized, fns, nfns >>
                  /\ pc' = "call"
        /\ cur' = [fn |-> f, args |-> a, cfg |-> cfg, miss |-> miss]
        /\ lastCall' = [n |-> calls + 1, args |-> a, miss |-> miss,
                        before |-> builds, fn |-> f, passed |-> <<>>, timing |-> FALSE, ret |-> NoArr,
                        raised |-> FALSE, back |-> ComesBack(a)]
  /\ bufs' = <<>> /\ events' = <<>> /\ kevt' = "none" /\ devt' = "none"
  /\ UNCHANGED << backend, ghost_depth, device, builds, dropped, failures, pure >>

\* OclStencilFunction.__init__
OclInit ==
  /\ pc = "init"
  /\ fns' = [fns EXCEPT ![cur.fn].dev = device, ![cur.fn].context = "held",
                        ![cur.fn].queue = "held"]
  /\ pc' = "build"
  /\ UNCHANGED << backend, ghost_depth, device, heap, args, output,
                  specialized, nfns, builds, calls, sameCfg, changes, lastCall,
                  prevCall, cur, bufs, events, kevt, devt, dropped, failures, pure >>

OclStencilFunction_finalize_nogeometry(f, gs, g, out) ==
  [f EXCEPT !.kernel = TRUE, !.ghost = g, !.output = out]

\* OclStencilFunction.finalize
OclStencilFunction_finalize(f, gs, g, out) ==
  [f EXCEPT !.kernel = TRUE, !.global_size = gs, !.ghost = g, !.output = out]

\* SpecializedStencil.finalize with backend ocl: program build, global size,
\* OclStencilFunction.finalize; the lazy call then holds the new function
OclFinalize ==
  /\ pc = "build"
  /\ fns' = [fns EXCEPT ![cur.fn] =
               OclStencilFunction_finalize(
                 [@ EXCEPT !.cfg = cur.cfg],
                 GlobalSize(cur.cfg, ghost_depth), ghost_depth, output)]
  /\ specialized' = [cfg |-> cur.cfg, fn |-> cur.fn]
  /\ builds' = builds + 1
  /\ pc' = "call"
  /\ UNCHANGED << backend, ghost_depth, device, heap, args, output, nfns,
                  calls, sameCfg, changes, lastCall, prevCall, cur, bufs, events, kevt,
                  devt, dropped, failures, pure >>

\* The call in flight ends with an exception.  No statement releases the
\* device buffers on this path (__call__ has no try/finally): bufs stays
\* referred to by the frame the propagating exception's traceback holds
Raise ==
  /\ pc' = "idle"
  /\ cur' = Idle
  /\ UNCHANGED bufs
  /\ lastCall' = [lastCall EXCEPT !.raised = TRUE]

SetSlot(sl, i, v) == IF i <= Len(sl) THEN [sl EXCEPT ![i] = v] ELSE Append(sl, v)

MemArg(id) == [kind |-> "mem", arr |-> id]

LocalArg(size) == [kind |-> "local", arr |-> size]

\* args[:-1], the arguments __call__ makes device buffers from
UploadArgs(a) == Front(a)

\* args[-2], the host array the download is written to
DownloadTarget(a) == a[Len(a) - 1]

\* OclStencilFunction.__call__, entry: self.kernel.argtypes, bufs, events
OclCall ==
  /\ pc = "call"
  /\ IF fns[cur.fn].kernel
       THEN /\ pc' = "upload"
            /\ UNCHANGED << cur, bufs, lastCall >>
       ELSE Raise
  /\ UNCHANGED << backend, ghost_depth, device, heap, args, output,
                  specialized, fns, nfns, builds, calls, sameCfg, changes, prevCall,
                  events, kevt, devt, dropped, failures, pure >>

\* one turn of the upload loop: non-blocking buffer_from_ndarray, setarg
Upload ==
  /\ pc = "upload"
  /\ Len(bufs) < Len(UploadArgs(cur.args))
  /\ LET i == Len(bufs) + 1
     IN /\ bufs' = Append(bufs, UploadArgs(cur.args)[i])
        /\ events' = Append(events, "pending")
        /\ fns' = [fns EXCEPT ![cur.fn].slots =
                     SetSlot(@, i, MemArg(UploadArgs(cur.args)[i]))]
  /\ UNCHANGED << backend, ghost_depth, device, heap, args, output,
                  specialized, nfns, builds, calls, sameCfg, changes, lastCall,
                  prevCall, pc, cur, kevt, devt, dropped, failures, pure >>

\* the device completes a transfer to a device buffer
UploadDone(i) ==
  /\ i \in 1..Len(events)
  /\ events[i] = "pending"
  /\ events' = [events EXCEPT ![i] = "done"]
  /\ UNCHANGED << backend, ghost_depth, device, heap, args, output,
                  specialized, fns, nfns, builds, calls, sameCfg, changes, lastCall,
                  prevCall, pc, cur, bufs, kevt, devt, dropped, failures, pure >>

clWaitForEvents_nowait(evs) == TRUE

\* cl.clWaitForEvents(*events) returns once every event is complete
clWaitForEvents(evs) == \A i \in 1..Len(evs) : evs[i] = "done"

Local(f) == IF f.dev = "gpu" THEN LocalGpu ELSE LocalOther

\* localmem_size: reduce(mul, (local + 2*ghost_depth for each dim), sizeof(c_float))
LocalmemSize(f, ndim) == SizeofCFloat * Power(Local(f) + f.ghost * 2, ndim)

\* the barrier, then local, localmem_size, setarg and clEnqueueNDRangeKernel
Launch ==
  /\ pc = "upload"
  /\ Len(bufs) = Len(UploadArgs(cur.args))
  /\ clWaitForEvents(events)
  /\ LET f    == fns[cur.fn]
         ndim == Len(heap[cur.args[1]].shape)
     IN fns' = [fns EXCEPT
                  ![cur.fn].slots =
                     SetSlot(@, Len(cur.args), LocalArg(LocalmemSize(f, ndim))),
                  ![cur.fn].local = [k \in 1..ndim |-> Local(f)]]
  /\ kevt' = "pending"
  /\ pc' = "wait_kernel"
  /\ lastCall' = [lastCall EXCEPT !.passed = bufs]
  /\ UNCHANGED << backend, ghost_depth, device, heap, args, output,
                  specialized, nfns, builds, calls, sameCfg, changes, prevCall, cur,
                  bufs, events, devt, dropped, failures, pure >>

\* the device completes the kernel
KernelDone ==
  /\ kevt = "pending"
  /\ kevt' = "done"
  /\ UNCHANGED << backend, ghost_depth, device, heap, args, output,
                  specialized, fns, nfns, builds, calls, sameCfg, changes, lastCall,
                  prevCall, pc, cur, bufs, events, devt, dropped, failures, pure >>

\* evt.wait() on the kernel, then buffer_to_ndarray(queue, bufs[-1], args[-2]);
\* bufs[-1] of an empty list raises IndexError
Download ==
  /\ pc = "wait_kernel"
  /\ kevt = "done"
  /\ IF bufs = <<>>
       THEN /\ Raise
            /\ UNCHANGED devt
       ELSE /\ devt' = "pending"
            /\ pc' = "wait_download"
            /\ UNCHANGED << cur, bufs, lastCall >>
  /\ UNCHANGED << backend, ghost_depth, device, heap, args, output,
                  specialized, fns, nfns, builds, calls, sameCfg, changes, prevCall,
                  events, kevt, dropped, failures, pure >>

\* the device completes the transfer of bufs[-1] into the host array
DownloadDone ==
  /\ devt = "pending"
  /\ devt' = "done"
  /\ heap' = [heap EXCEPT ![DownloadTarget(cur.args)].data = "dev"]
  /\ UNCHANGED << backend, ghost_depth, device, args, output, specialized,
                  fns, nfns, builds, calls, sameCfg, changes, lastCall, prevCall, pc,
                  cur, bufs, events, kevt, dropped, failures, pure >>

\* evt.wait() on the download, the buffers go out of scope, return buf
Return ==
  /\ pc = "wait_download"
  /\ devt = "done"
  /\ lastCall' = [lastCall EXCEPT !.ret = DownloadTarget(cur.args)]
  /\ bufs' = <<>>
  /\ cur' = Idle
  /\ pc' = "idle"
  /\ UNCHANGED << backend, ghost_depth, device, heap, args, output,
                  specialized, fns, nfns, builds, calls, sameCfg, changes, prevCall,
                  events, kevt, devt, dropped, failures, pure >>

(* ---------------- end of life ---------------- *)
\* the owner drops the controller, and with it the held specialization
Drop ==
  /\ pc = "idle" /\ ~dropped /\ calls > 0
  /\ dropped' = TRUE
  /\ UNCHANGED << backend, ghost_depth, device, heap, args, output,
                  specialized, fns, nfns, builds, calls, sameCfg, changes, lastCall,
                  prevCall, pc, cur, bufs, events, kevt, devt, failures, pure >>

OclDel_guarded(f) ==
  [f EXCEPT !.context = IF @ = "held" THEN "released" ELSE @,
            !.queue = IF @ = "held" THEN "released" ELSE @,
            !.live = FALSE]

\* OclStencilFunction.__del__: del self.context; del self.queue.  Deleting
\* an attribute that was never set raises AttributeError and ends __del__.
OclDel(f) ==
  IF f.context /= "held"
    THEN [f EXCEPT !.live = FALSE, !.delRaised = TRUE]
    ELSE IF f.queue /= "held"
      THEN [f EXCEPT !.context = "released", !.live = FALSE,
                     !.delRaised = TRUE]
      ELSE [f EXCEPT !.context = "released", !.queue = "released",
                     !.live = FALSE]

\* what is left to observe of a destroyed runtime: what __del__ did
Destroyed(f) ==
  [NoFn EXCEPT !.kind = f.kind, !.context = f.context, !.queue = f.queue,
               !.delRaised = f.delRaised]

\* the runtime is destroyed once nothing refers to it
Del(r) ==
  /\ Unreachable(r)
  /\ fns' = [fns EXCEPT ![r] = Destroyed(OclDel(fns[r]))]
  /\ UNCHANGED << backend, ghost_depth, device, heap, args, output,
                  specialized, nfns, builds, calls, sameCfg, changes, lastCall,
                  prevCall, pc, cur, bufs, events, kevt, devt, dropped, failures, pure >>

\* the steps of a controller with the GPU backend
NextOcl ==
  \/ \E a \in ArgTuples : LazyCallOcl(a)
  \/ OclInit
  \/ OclFinalize
  \/ OclCall
  \/ Upload
  \/ \E i \in 1..Len(events) : UploadDone(i)
  \/ Launch
  \/ KernelDone
  \/ Download
  \/ DownloadDone
  \/ Return
  \/ Drop
  \/ \E r \in 1..MaxCalls : Del(r)

Next ==
  \/ \E a \in ArgTuples : LazyCallNative(a)
  \/ NextOcl

Spec == Init /\ [][Next]_vars

(* ---------------- failures of the device layer ---------------- *)
\* OclStencilFunction.__init__ raises: before the context exists
\* (clGetDeviceIDs returns no device or fails, clCreateContext fails:
\* "context"), or in clCreateCommandQueue ("queue", the context is held)
OclInitFail(stage) ==
  /\ pc = "init"
  /\ failures < MaxFailures
  /\ failures' = failures + 1
  /\ fns' = [fns EXCEPT ![cur.fn].context =
                          IF stage = "queue" THEN "held" ELSE @]
  /\ Raise
  /\ UNCHANGED << backend, ghost_depth, device, heap, args, output,
                  specialized, nfns, builds, calls, sameCfg, changes, prevCall,
                  events, kevt, devt, dropped, pure >>

\* clCreateProgramWithSource(...).build() raises in SpecializedStencil.finalize
OclBuildFail ==
  /\ pc = "build"
  /\ failures < MaxFailures
  /\ failures' = failures + 1
  /\ Raise
  /\ UNCHANGED << backend, ghost_depth, device, heap, args, output,
                  specialized, fns, nfns, builds, calls, sameCfg, changes, prevCall,
                  events, kevt, devt, dropped, pure >>

NextFail ==
  \/ NextOcl
  \/ \E stage \in {"context", "queue"} : OclInitFail(stage)
  \/ OclBuildFail

InitFail == Init /\ backend = "ocl"

SpecFail == InitFail /\ [][NextFail]_vars

\* a device error in the upload stage of OclStencilFunction.__call__:
\* buffer_from_ndarray of the next argument, or clWaitForEvents, raises
UploadFail ==
  /\ pc = "upload"
  /\ failures < MaxFailures
  /\ failures' = failures + 1
  /\ Raise
  /\ UNCHANGED << backend, ghost_depth, device, heap, args, output,
                  specialized, fns, nfns, builds, calls, sameCfg, changes,
                  prevCall, events, kevt, devt, dropped, pure >>

\* clEnqueueNDRangeKernel raises: the local-memory argument is already set
LaunchFail ==
  /\ pc = "upload"
  /\ Len(bufs) = Len(UploadArgs(cur.args))
  /\ clWaitForEvents(events)
  /\ failures < MaxFailures
  /\ failures' = failures + 1
  /\ LET f    == fns[cur.fn]
         ndim == Len(heap[cur.args[1]].shape)
     IN fns' = [fns EXCEPT ![cur.fn].slots =
                  SetSlot(@, Len(cur.args), LocalArg(LocalmemSize(f, ndim)))]
  /\ Raise
  /\ UNCHANGED << backend, ghost_depth, device, heap, args, output,
                  specialized, nfns, builds, calls, sameCfg, changes,
                  prevCall, events, kevt, devt, dropped, pure >>

\* the kernel is complete and buffer_to_ndarray(queue, bufs[-1], args[-2])
\* raises
DownloadFail ==
  /\ pc = "wait_kernel"
  /\ kevt = "done"
  /\ bufs /= <<>>
  /\ failures < MaxFailures
  /\ failures' = failures + 1
  /\ Raise
  /\ UNCHANGED << backend, ghost_depth, device, heap, args, output,
                  specialized, fns, nfns, builds, calls, sameCfg, changes,
                  prevCall, events, kevt, devt, dropped, pure >>

\* the caller is done with the exception: the traceback and the frame of
\* the failed __call__ are collected, and with the frame its list bufs
ExcCleared ==
  /\ pc = "idle"
  /\ bufs /= <<>>
  /\ bufs' = <<>>
  /\ UNCHANGED << backend, ghost_depth, device, heap, args, output,
                  specialized, fns, nfns, builds, calls, sameCfg, changes,
                  lastCall, prevCall, pc, cur, events, kevt, devt, dropped,
                  failures, pure >>

\* the GPU controller with device errors inside OclStencilFunction.__call__
NextDevFail ==
  \/ NextOcl
  \/ UploadFail
  \/ LaunchFail
  \/ DownloadFail
  \/ ExcCleared

SpecDevFail == InitFail /\ [][NextDevFail]_vars

(* ---------------- methods of StencilKernel evaluated on their own ---------------- *)
\* extents and ranks of the arrays these methods are evaluated on
MaxDim == 4
MaxRank == 2

Shapes == UNION { [1..n -> 0..MaxDim] : n \in 1..MaxRank }

\* the names a backend argument is drawn from
BackendNames == {"python", "c", "omp", "ocl", "opencl", "cuda"}

Range_closed(lo, hi) ==
  [i \in 1..(IF hi >= lo THEN hi - lo + 1 ELSE 0) |-> lo + i - 1]

\* range(lo, hi): lo, lo+1, ..., hi-1
Range(lo, hi) ==
  [i \in 1..(IF hi > lo THEN hi - lo ELSE 0) |-> lo + i - 1]

\* itertools.product(*rs): the tuples in odometer order, last range fastest
RECURSIVE Product(_)
Product(rs) ==
  IF rs = <<>>
    THEN << <<>> >>
    ELSE LET r    == Head(rs)
             rest == Product(Tail(rs))
             n    == Len(rest)
         IN [k \in 1..(Len(r) * n) |->
               << r[((k - 1) \div n) + 1] >> \o rest[((k - 1) % n) + 1]]

\* StencilKernel.interior_points: everything the generator yields, in order
interior_points(shape, g) ==
  Product([k \in 1..Len(shape) |-> Range(g, shape[k] - g)])

\* the generator is created for an array of the given shape
InteriorPointsCall(shape, g) ==
  /\ pure.op = "none"
  /\ pure' = [op |-> "interior_points", shape |-> shape, g |-> g,
              yielded |-> <<>>, done |-> FALSE]
  /\ UNCHANGED << backend, ghost_depth, device, heap, args, output,
                  specialized, fns, nfns, builds, calls, sameCfg, changes,
                  lastCall, prevCall, pc, cur, bufs, events, kevt, devt,
                  dropped, failures >>

\* the consumer takes the next tuple from the generator
InteriorPointsYield ==
  /\ pure.op = "interior_points" /\ ~pure.done
  /\ Len(pure.yielded) < Len(interior_points(pure.shape, pure.g))
  /\ pure' = [pure EXCEPT !.yielded =
                Append(@, interior_points(pure.shape, pure.g)[Len(@) + 1])]
  /\ UNCHANGED << backend, ghost_depth, device, heap, args, output,
                  specialized, fns, nfns, builds, calls, sameCfg, changes,
                  lastCall, prevCall, pc, cur, bufs, events, kevt, devt,
                  dropped, failures >>

\* the generator is exhausted
InteriorPointsStop ==
  /\ pure.op = "interior_points" /\ ~pure.done
  /\ Len(pure.yielded) = Len(interior_points(pure.shape, pure.g))
  /\ pure' = [pure EXCEPT !.done = TRUE]
  /\ UNCHANGED << backend, ghost_depth, device, heap, args, output,
                  specialized, fns, nfns, builds, calls, sameCfg, changes,
                  lastCall, prevCall, pc, cur, bufs, events, kevt, devt,
                  dropped, failures >>

\* SpecializedStencil.finalize computes global_size for a first argument of
\* the given shape
FinalizeGeometry(shape, g) ==
  /\ pure.op = "none"
  /\ pure' = [op |-> "global_size", shape |-> shape, g |-> g,
              global_size |->
                GlobalSize(<< StencilArgConfig(shape[1], "float32",
                                               Len(shape), shape) >>, g)]
  /\ UNCHANGED << backend, ghost_depth, device, heap, args, output,
                  specialized, fns, nfns, builds, calls, sameCfg, changes,
                  lastCall, prevCall, pc, cur, bufs, events, kevt, devt,
                  dropped, failures >>

\* backend_dict of StencilKernel and of SpecializedStencil: the transformer
\* class a backend name stands for
backend_dict(b) ==
  CASE b = "c" -> "StencilCTransformer"
    [] b = "omp" -> "StencilOmpTransformer"
    [] b \in {"ocl", "opencl"} -> "StencilOclTransformer"
    [] OTHER -> "None"

\* StencilKernel.__init__: the check for a kernel method, then
\* self.backend = self.backend_dict[backend]
StencilKernel_init(b, hasKernel) ==
  IF hasKernel
    THEN [kind |-> "StencilKernel", error |-> "none",
          backend |-> backend_dict(b)]
    ELSE [kind |-> "none", error |-> "No kernel method defined.",
          backend |-> "unset"]

\* SpecializedStencil.__init__: backend_dict[backend], then
\* get_ast(kernel.kernel), which reads the attribute kernel of the object
SpecializedStencil_init(b, hasKernel) ==
  IF b \notin {"c", "omp", "ocl", "opencl"}
    THEN [kind |-> "none", error |-> "KeyError", backend |-> "unset"]
    ELSE IF hasKernel
      THEN [kind |-> "SpecializedStencil", error |-> "none",
            backend |-> backend_dict(b)]
      ELSE [kind |-> "none", error |-> "AttributeError",
            backend |-> "unset"]

\* StencilKernel(backend): __new__, and __init__ only when __new__ returned
\* an instance of the class; a name neither branch of __new__ tests for
\* falls off its end, and the constructor call evaluates to None
StencilKernel_new(b, hasKernel) ==
  IF b = "python"
    THEN StencilKernel_init(b, hasKernel)
    ELSE IF b \in {"c", "omp", "ocl"}
      THEN SpecializedStencil_init(b, hasKernel)
      ELSE [kind |-> "None", error |-> "none", backend |-> "unset"]

\* a StencilKernel subclass, with or without a kernel method, is constructed
Construct(b, hasKernel) ==
  /\ pure.op = "none"
  /\ pure' = [op |-> "new", backend |-> b, hasKernel |-> hasKernel,
              result |-> StencilKernel_new(b, hasKernel)]
  /\ UNCHANGED << backend, ghost_depth, device, heap, args, output,
                  specialized, fns, nfns, builds, calls, sameCfg, changes,
                  lastCall, prevCall, pc, cur, bufs, events, kevt, devt,
                  dropped, failures >>

NextPure ==
  \/ \E shape \in Shapes, g \in 0..MaxGhost : InteriorPointsCall(shape, g)
  \/ InteriorPointsYield
  \/ InteriorPointsStop
  \/ \E shape \in Shapes, g \in 0..MaxGhost : FinalizeGeometry(shape, g)
  \/ \E b \in BackendNames, hasKernel \in BOOLEAN : Construct(b, hasKernel)

\* no controller is in use: the native backend, not called
InitPure == Init /\ backend = "c" /\ ghost_depth = 0

SpecPure == InitPure /\ [][NextPure]_vars

(* ---------------- PythonToStencilModel ---------------- *)
\* nesting depth of the statements the translator is run on
MaxDepth == 2

\* nodes of the host language's ast module
Name(id) == [kind |-> "Name", id |-> id]

Num(n) == [kind |-> "Num", n |-> n]

Tuple(elts) == [kind |-> "Tuple", elts |-> elts]

Attribute(value, attr) == [kind |-> "Attribute", value |-> value, attr |-> attr]

Call(func, arglist) ==
  [kind |-> "Call", func |-> func, args |-> arglist]

Expr(value) == [kind |-> "Expr", value |-> value]

If(body) == [kind |-> "If", body |-> body]

For(target, iter, body) ==
  [kind |-> "For", target |-> target, iter |-> iter, body |-> body]

\* nodes of ctree's C tree: a symbol and a call of one
SymbolRef(name) == [kind |-> "SymbolRef", name |-> name]

FunctionCall(func, arglist) ==
  [kind |-> "FunctionCall", func |-> func, args |-> arglist]

\* nodes of stencil_model
InteriorPointsLoop(target, body) ==
  [kind |-> "InteriorPointsLoop", target |-> target, body |-> body]

NeighborPointsLoop(neighbor_id, grid_name, neighbor_target, body) ==
  [kind |-> "NeighborPointsLoop", neighbor_id |-> neighbor_id,
   grid_name |-> grid_name, neighbor_target |-> neighbor_target,
   body |-> body]

MathFunction(func, arglist) ==
  [kind |-> "MathFunction", func |-> func, args |-> arglist]

\* the visit ends with an exception of the given class
Raised(exc) == [kind |-> "raise", exc |-> exc]

\* str(node): the name of a ctree symbol; a node of the ast module has no
\* __str__ and prints as an object
Str(node) == IF node.kind = "SymbolRef" THEN node.name ELSE "<object>"

RECURSIVE visit(_)

\* list(map(self.visit, nodes))
VisitList(nodes) == [i \in 1..Len(nodes) |-> visit(nodes[i])]

Raises(nodes) == \E i \in 1..Len(nodes) : nodes[i].kind = "raise"

\* the exception that ends map: that of the first element that raises
FirstRaise(nodes) ==
  nodes[CHOOSE i \in 1..Len(nodes) :
          /\ nodes[i].kind = "raise"
          /\ \A j \in 1..(i - 1) : nodes[j].kind /= "raise"]

visit_For_shallow(node) ==
  IF node.iter.kind = "Call" /\ node.iter.func.kind = "Attribute"
       /\ node.iter.func.attr = "interior_points" /\ node.target.kind = "Name"
    THEN InteriorPointsLoop(node.target.id, node.body)
    ELSE node

\* PythonToStencilModel.visit_For.  The attribute name is compared by
\* identity with a literal: names produced by the parser and name-like
\* literals are interned, so identity is equality on them
visit_For(node) ==
  LET body == VisitList(node.body)
  IN IF Raises(body) THEN FirstRaise(body)
     ELSE IF node.iter.kind = "Call" /\ node.iter.func.kind = "Attribute"
       THEN IF node.iter.func.attr = "interior_points"
              THEN IF node.target.kind /= "Name"
                     THEN Raised("AttributeError")
                     ELSE InteriorPointsLoop(node.target.id, body)
            ELSE IF node.iter.func.attr = "neighbors"
              THEN IF Len(node.iter.args) < 2
                     THEN Raised("IndexError")
                   ELSE IF node.iter.args[2].kind /= "Num"
                     THEN Raised("AttributeError")
                   ELSE IF node.iter.func.value.kind /= "Name"
                     THEN Raised("AttributeError")
                   ELSE IF node.target.kind /= "Name"
                     THEN Raised("AttributeError")
                   ELSE NeighborPointsLoop(node.iter.args[2].n,
                                           node.iter.func.value.id,
                                           node.target.id, body)
            ELSE [node EXCEPT !.body = body]
       ELSE [node EXCEPT !.body = body]

\* PythonToStencilModel.visit_FunctionCall
visit_FunctionCall(node) ==
  LET a == VisitList(node.args)
  IN IF Raises(a) THEN FirstRaise(a)
     ELSE IF Str(node.func) = "distance" \/ Str(node.func) = "int"
       THEN MathFunction(node.func, a)
       ELSE [node EXCEPT !.args = a]

\* NodeTransformer.generic_visit: every child node is visited and replaced
generic_visit(node) ==
  CASE node.kind \in {"Expr", "Attribute"} ->
         LET v == visit(node.value)
         IN IF v.kind = "raise" THEN v ELSE [node EXCEPT !.value = v]
    [] node.kind = "If" ->
         LET b == VisitList(node.body)
         IN IF Raises(b) THEN FirstRaise(b) ELSE [node EXCEPT !.body = b]
    [] node.kind = "Tuple" ->
         LET e == VisitList(node.elts)
         IN IF Raises(e) THEN FirstRaise(e) ELSE [node EXCEPT !.elts = e]
    [] node.kind = "Call" ->
         LET f == visit(node.func)
             a == VisitList(node.args)
         IN IF f.kind = "raise" THEN f
            ELSE IF Raises(a) THEN FirstRaise(a)
            ELSE [node EXCEPT !.func = f, !.args = a]
    [] OTHER -> node

\* NodeTransformer.visit: the method named after the class of the node,
\* generic_visit when the translator has none
visit(node) ==
  IF node.kind = "For" THEN visit_For(node)
  ELSE IF node.kind = "FunctionCall" THEN visit_FunctionCall(node)
  ELSE generic_visit(node)

\* expressions of a kernel body as the parser gives them
HostExprs ==
  { Call(Name(f), << Name("x") >>) : f \in {"distance", "int", "f"} }
    \cup { Call(Name("int"), << Call(Name("distance"), << Name("x") >>) >>) }

\* expressions holding calls of ctree's C tree
CtreeExprs ==
  { FunctionCall(SymbolRef(f), << Name("x") >>) : f \in {"distance", "int", "f"} }
    \cup { FunctionCall(SymbolRef("distance"),
                        << FunctionCall(SymbolRef("int"), << Name("x") >>) >>),
           Call(Name("f"), << FunctionCall(SymbolRef("int"), << Name("x") >>) >>) }

\* for p in self.interior_points(x)
InteriorIter == Call(Attribute(Name("self"), "interior_points"), << Name("x") >>)

\* iterables of the for-loops
Iters ==
  { InteriorIter,
    Call(Attribute(Name("g"), "neighbors"), << Name("p"), Num(1) >>),
    Call(Attribute(Name("g"), "neighbors"), << Name("p") >>),
    Call(Attribute(Name("g"), "neighbors"), << Name("p"), Name("k") >>),
    Call(Attribute(Call(Name("f"), <<>>), "neighbors"), << Name("p"), Num(1) >>),
    Call(Attribute(Name("d"), "items"), <<>>),
    Call(Name("range"), << Num(1) >>),
    Name("xs") }

\* targets of the for-loops: for p in ..., for a, b in ...
Targets == { Name("p"), Tuple(<< Name("a"), Name("b") >>) }

\* statements nested to depth d over the expressions es
RECURSIVE Stmts(_, _)
Stmts(es, d) ==
  IF d = 0
    THEN { Expr(e) : e \in es }
    ELSE LET sub == Stmts(es, d - 1)
         IN sub
            \cup { For(t, it, << st >>) : t \in Targets, it \in Iters, st \in sub }
            \cup { For(Name("p"), InteriorIter, << st, Expr(Name("x")) >>) : st \in sub }
            \cup { If(<< st >>) : st \in sub }

\* what get_ast gives for a kernel method: nodes of the ast module only
HostTrees == Stmts(HostExprs, MaxDepth)

Trees == Stmts(HostExprs \cup CtreeExprs, MaxDepth)

\* PythonToStencilModel().visit(tree) on a tree of any origin
Visit ==
  /\ pure.op = "none"
  /\ \E tree \in Trees :
       pure' = [op |-> "visit", tree |-> tree, result |-> visit(tree)]
  /\ UNCHANGED << backend, ghost_depth, device, heap, args, output,
                  specialized, fns, nfns, builds, calls, sameCfg, changes,
                  lastCall, prevCall, pc, cur, bufs, events, kevt, devt,
                  dropped, failures >>

\* SpecializedStencil.transform runs the translator on the python AST of
\* the kernel method
TransformVisit ==
  /\ pure.op = "none"
  /\ \E tree \in HostTrees :
       pure' = [op |-> "transform", tree |-> tree, result |-> visit(tree)]
  /\ UNCHANGED << backend, ghost_depth, device, heap, args, output,
                  specialized, fns, nfns, builds, calls, sameCfg, changes,
                  lastCall, prevCall, pc, cur, bufs, events, kevt, devt,
                  dropped, failures >>

NextFrontend ==
  \/ Visit
  \/ TransformVisit

SpecFrontend == InitPure /\ [][NextFrontend]_vars

(* ======================= properties ======================= *)
\* C11: a device error during upload, kernel enqueue or download propagates
\* to the caller, and once control is back with the caller (no call in
\* flight) no device buffer allocated by a finished call is still allocated
C11_NoLeakOnFailure ==
  pc = "idle" => bufs = <<>>

\* (dtype, shape) per argument of a configuration
CfgDescr(cfg) == [i \in 1..Len(cfg) |-> << cfg[i].dtype, cfg[i].shape >>]

\* (dtype, ndim, shape) per argument of an argument tuple
Descr3(a) ==
  [i \in 1..Len(a) |->
     << InputArrays[a[i]].dtype, Len(InputArrays[a[i]].shape),
        InputArrays[a[i]].shape >>]

\* the build of the call in flight is over
BuildOver == pc \notin {"init", "build"}

\* C1: in a run of calls that all have the configuration of the first call,
\* the specialization is built exactly once, by the first call, and every
\* later call reuses that Compiled Specialization without a build.
C1_IdempotentReuse ==
  sameCfg =>
    /\ builds <= 1
    /\ (calls >= 1 /\ BuildOver) => builds = 1
    /\ lastCall.n = 1 => lastCall.miss
    /\ lastCall.n >= 2 => (~lastCall.miss /\ lastCall.fn = prevCall.fn)

C1_Witness ==
  /\ sameCfg /\ calls = 3 /\ pc = "idle" /\ builds = 1
  /\ lastCall.args /= prevCall.args
  /\ ~lastCall.miss

\* C2: a call whose configuration differs from the one held (that of the
\* call before) is followed by exactly one rebuild between the two calls, and
\* is executed by the newly built specialization, not by the old one.
C2_RebuildOnChange ==
  (prevCall.n >= 1 /\ Descr(prevCall.args) /= Descr(lastCall.args) /\ BuildOver)
    => /\ lastCall.miss
       /\ lastCall.before = prevCall.before + (IF prevCall.miss THEN 1 ELSE 0)
       /\ builds = lastCall.before + 1
       /\ lastCall.fn /= prevCall.fn
       /\ specialized.fn = lastCall.fn
       /\ CfgDescr(specialized.cfg) = Descr(lastCall.args)

C2_Witness ==
  /\ prevCall.n >= 1 /\ pc = "idle"
  /\ InputArrays[prevCall.args[1]].shape /= InputArrays[lastCall.args[1]].shape
  /\ lastCall.miss /\ builds = 2

C4_OutputLikeFirstInput ==
  (specialized.fn /= 0 /\ fns[specialized.fn].live) =>
    /\ heap[fns[specialized.fn].output].shape = specialized.cfg[1].shape
    /\ heap[fns[specialized.fn].output].dtype = specialized.cfg[1].dtype

\* C5: a native call passes the inputs in call order, then the persistent
\* output buffer and a timing destination, and returns that output buffer;
\* two calls on one specialization return the same buffer.
C5_NativeAliasing ==
  (backend \in {"c", "omp"} /\ lastCall.n >= 1) =>
    /\ lastCall.passed = lastCall.args \o << fns[lastCall.fn].output >>
    /\ lastCall.timing
    /\ lastCall.ret = fns[lastCall.fn].output
    /\ lastCall.ret \notin { lastCall.args[i] : i \in 1..Len(lastCall.args) }
    /\ heap[lastCall.ret].data = "out"
    /\ (prevCall.n >= 1 /\ prevCall.fn = lastCall.fn) => prevCall.ret = lastCall.ret

C5_Witness ==
  /\ backend \in {"c", "omp"} /\ lastCall.n >= 2
  /\ prevCall.fn = lastCall.fn /\ prevCall.args /= lastCall.args
  /\ prevCall.ret = lastCall.ret

\* the GPU call in flight, or the latest one, has enqueued its kernel
Launched == backend = "ocl" /\ kevt /= "none" /\ fns[lastCall.fn].live

\* C6: a GPU call has made a device buffer from every input array of the
\* call by the time the kernel is enqueued, input i is bound to slot i, and
\* the local-memory argument is the slot after all the array slots.
C6_UploadsEveryInput ==
  Launched =>
    /\ lastCall.passed = lastCall.args
    /\ \A i \in 1..Len(lastCall.args) :
         fns[lastCall.fn].slots[i] = MemArg(lastCall.args[i])
    /\ Len(fns[lastCall.fn].slots) = Len(lastCall.args) + 1
    /\ fns[lastCall.fn].slots[Len(lastCall.args) + 1].kind = "local"

\* C7: the array a GPU call returns is the output array recorded at
\* finalize, not an array of the caller, two calls on one runtime return the
\* same array, and no array of the caller is written by the download.
C7_GpuOutputAliasing ==
  /\ (backend = "ocl" /\ lastCall.ret /= NoArr /\ fns[lastCall.fn].live) =>
        /\ lastCall.ret = fns[lastCall.fn].output
        /\ lastCall.ret \notin { lastCall.args[i] : i \in 1..Len(lastCall.args) }
  /\ \A id \in InputIds : heap[id].data = "in"

\* C8: within one GPU call the kernel is enqueued only after every upload of
\* the call was issued and has completed, the download is issued only after
\* the kernel has completed, and the call returns only after the download
\* has completed.
C8_StageOrdering ==
  backend = "ocl" =>
    /\ kevt /= "none" =>
         /\ Len(events) = Len(lastCall.passed)
         /\ \A i \in 1..Len(events) : events[i] = "done"
    /\ devt /= "none" => kevt = "done"
    /\ (pc = "idle" /\ lastCall.ret /= NoArr) => (devt = "done" /\ kevt = "done")

C8_Witness ==
  /\ backend = "ocl" /\ pc = "idle" /\ lastCall.ret /= NoArr
  /\ Len(events) = 2 /\ kevt = "done" /\ devt = "done"

\* the lifecycle state of a runtime object
RtState(r) ==
  IF fns[r].kind /= "ocl" THEN "Absent"
  ELSE IF ~fns[r].live THEN "Released"
  ELSE IF fns[r].context /= "held" \/ fns[r].queue /= "held" THEN "Uninitialized"
  ELSE IF ~fns[r].kernel THEN "DeviceBound"
  ELSE IF pc \in {"upload", "wait_kernel", "wait_download"} /\ cur.fn = r
    THEN "Executing"
  ELSE "Ready"

Lifecycle ==
  { <<"Absent", "Uninitialized">>, <<"Uninitialized", "DeviceBound">>,
    <<"DeviceBound", "Ready">>, <<"Ready", "Executing">>,
    <<"Executing", "Ready">>, <<"Ready", "Released">> }

\* entered when construction or the program build fails
FailedTeardown ==
  { <<"Uninitialized", "Released">>, <<"DeviceBound", "Released">> }

\* the step enqueues a kernel
Enqueues == kevt /= "pending" /\ kevt' = "pending"

\* the runtime of the call in flight is bound by finalize and not released
LaunchReady ==
  /\ fns[cur.fn].live
  /\ fns[cur.fn].context = "held" /\ fns[cur.fn].queue = "held"
  /\ fns[cur.fn].kernel
  /\ fns[cur.fn].global_size = GlobalSize(cur.cfg, ghost_depth)
  /\ fns[cur.fn].ghost = ghost_depth

\* C9 as stated: every runtime moves only along Uninitialized -> DeviceBound
\* -> Ready -> (Executing -> Ready)* -> Released, and a kernel is enqueued
\* only on a runtime finalize has bound and that is not released.
C9_LifecycleStrict ==
  [][ /\ \A r \in 1..MaxCalls :
           RtState(r)' /= RtState(r) => << RtState(r), RtState(r)' >> \in Lifecycle
      /\ Enqueues => LaunchReady ]_vars

\* C9 as amended: the same, and a runtime whose construction or program
\* build failed is released straight from Uninitialized or DeviceBound.
C9_Lifecycle ==
  [][ /\ \A r \in 1..MaxCalls :
           RtState(r)' /= RtState(r) =>
             << RtState(r), RtState(r)' >> \in Lifecycle \cup FailedTeardown
      /\ \A r \in 1..MaxCalls :
           (RtState(r)' /= RtState(r) /\ << RtState(r), RtState(r)' >> \in FailedTeardown)
             => (r /= specialized.fn /\ failures > 0)
      /\ Enqueues => LaunchReady ]_vars

C9_Witness ==
  /\ failures = 1
  /\ \E r \in 1..MaxCalls : RtState(r) = "Released" /\ fns[r].delRaised
  /\ \E r \in 1..MaxCalls : RtState(r) = "Released" /\ ~fns[r].delRaised
  /\ \E r \in 1..MaxCalls : RtState(r) = "Executing" /\ kevt = "pending"

\* C10: a runtime that is constructed holds one context and one queue from
\* then on until teardown, and teardown releases whatever was created and
\* does not fail, also for a runtime whose construction failed.
C10_ContextQueueOwnership ==
  \A r \in 1..MaxCalls :
    /\ (fns[r].kind = "ocl" /\ fns[r].live /\ (fns[r].kernel \/ (cur.fn = r /\ pc = "build")))
         => (fns[r].context = "held" /\ fns[r].queue = "held")
    /\ (fns[r].kind = "ocl" /\ ~fns[r].live)
         => /\ ~fns[r].delRaised
            /\ fns[r].context \in {"unset", "released"}
            /\ fns[r].queue \in {"unset", "released"}

\* the index tuples of the interior of an array of the given shape
Interior(shape, g) ==
  { t \in [1..Len(shape) -> 0..MaxDim] :
      \A k \in 1..Len(shape) : g <= t[k] /\ t[k] <= shape[k] - g - 1 }

\* C12: interior_points yields exactly the index tuples with
\* g <= i_k <= d_k - g - 1 in every dimension, each exactly once (64 points
\* for shape (10,10) and ghost depth 1), and nothing when some d_k <= 2g
C12_InteriorPoints ==
  /\ Len(interior_points(<<10, 10>>, 1)) = 64
  /\ pure.op = "interior_points" =>
       /\ \A i \in 1..Len(pure.yielded) :
            pure.yielded[i] \in Interior(pure.shape, pure.g)
       /\ \A i, j \in 1..Len(pure.yielded) :
            i /= j => pure.yielded[i] /= pure.yielded[j]
       /\ pure.done =>
            { pure.yielded[i] : i \in 1..Len(pure.yielded) }
              = Interior(pure.shape, pure.g)
       /\ (\E k \in 1..Len(pure.shape) : pure.shape[k] <= 2 * pure.g) =>
            pure.yielded = <<>>

C12_Witness ==
  /\ pure.op = "interior_points" /\ pure.done
  /\ pure.shape = <<4, 4>> /\ pure.g = 1
  /\ Len(pure.yielded) = 4

RECURSIVE Prod(_)
Prod(t) == IF t = <<>> THEN 1 ELSE Head(t) * Prod(Tail(t))

\* C14: constructing a wrapper for backend c, omp or ocl around a type with
\* no kernel method fails with the error "No kernel method defined."
C14_FatalOnMissingKernel ==
  (/\ pure.op = "new"
   /\ pure.backend \in {"c", "omp", "ocl"}
   /\ ~pure.hasKernel)
    => pure.result.error = "No kernel method defined."

\* C19: the recorded global size has, per dimension of the first input,
\* extent d_k - 2g, the extent is never negative, and the product of the
\* extents is the number of tuples interior_points yields for that array
C19_GeometryCoversInterior ==
  pure.op = "global_size" =>
    /\ Len(pure.global_size) = Len(pure.shape)
    /\ \A k \in 1..Len(pure.shape) :
         /\ pure.global_size[k] = pure.shape[k] - 2 * pure.g
         /\ pure.global_size[k] >= 0
    /\ Prod(pure.global_size) = Len(interior_points(pure.shape, pure.g))

\* numpy itemsize of a dtype
ItemSize(dtype) == IF dtype = "float64" THEN 8 ELSE 4

\* C13: the buffer bound to the kernel's final argument has size
\* (local + 2g)^rank * elementSize, with local 8 on a GPU and 1 otherwise,
\* rank the rank of the first input and elementSize the byte size of one
\* element of the arrays of the call.
C13_LocalMemSizing ==
  Launched =>
    LET f  == fns[lastCall.fn]
        a1 == InputArrays[lastCall.args[1]]
    IN /\ Last(f.slots).kind = "local"
       /\ Last(f.slots).arr =
            Power((IF f.dev = "gpu" THEN 8 ELSE 1) + 2 * ghost_depth,
                  Len(a1.shape)) * ItemSize(a1.dtype)

\* C18: one specialization is held; once a call's build is over it is the
\* one for that call's configuration, and every call whose configuration
\* differs from the call before costs one build, also when it comes back to
\* an earlier configuration: alternating A, B, A, B builds on every call.
C18_SingleSlot ==
  /\ (calls >= 1 /\ BuildOver) =>
       /\ builds = 1 + changes
       /\ specialized.fn = lastCall.fn
       /\ CfgDescr(specialized.cfg) = Descr(lastCall.args)
  /\ (lastCall.back /\ Descr(prevCall.args) /= Descr(lastCall.args)) =>
       lastCall.miss
  /\ (calls >= 1 /\ BuildOver /\ changes = calls - 1) => builds = calls

C18_Witness ==
  /\ calls = 3 /\ pc = "idle"
  /\ lastCall.back /\ Descr(prevCall.args) /= Descr(lastCall.args)
  /\ lastCall.miss /\ builds = 3

\* C20: at every kernel enqueue the local geometry has as many dimensions
\* as the recorded global geometry, and every global extent is a positive
\* multiple of the local extent of its dimension.
C20_GeometryValidForDevice ==
  Launched =>
    LET f == fns[lastCall.fn]
    IN /\ Len(f.local) = Len(f.global_size)
       /\ \A k \in 1..Len(f.global_size) :
            /\ f.global_size[k] > 0
            /\ f.global_size[k] % f.local[k] = 0

\* the translator has been run on a tree
Translated == pure.op \in {"visit", "transform"}

\* the for-loop iterates over <obj>.<attr>(...)
LoopOver(node, attr) ==
  /\ node.kind = "For"
  /\ node.iter.kind = "Call" /\ node.iter.func.kind = "Attribute"
  /\ node.iter.func.attr = attr

\* the loop is written as the idiom is: for <name> in <obj>.interior_points(...)
\* or for <name> in <G>.neighbors(<x>, <k>) with a name G and a constant k
Idiom(node) ==
  /\ LoopOver(node, "interior_points") => node.target.kind = "Name"
  /\ LoopOver(node, "neighbors") =>
       /\ node.target.kind = "Name"
       /\ node.iter.func.value.kind = "Name"
       /\ Len(node.iter.args) = 2 /\ node.iter.args[2].kind = "Num"

\* the statements directly inside a statement
Body(node) ==
  IF node.kind \in {"For", "If", "InteriorPointsLoop", "NeighborPointsLoop"}
    THEN node.body ELSE <<>>

RECURSIVE AllIdiom(_)
AllIdiom(node) ==
  /\ Idiom(node)
  /\ \A i \in 1..Len(Body(node)) : AllIdiom(Body(node)[i])

\* out is what the loops of the statement in are to be rewritten to, at
\* every depth
RECURSIVE Rewritten(_, _)
Rewritten(in, out) ==
  /\ IF LoopOver(in, "interior_points")
       THEN /\ out.kind = "InteriorPointsLoop"
            /\ out.target = in.target.id
     ELSE IF LoopOver(in, "neighbors")
       THEN /\ out.kind = "NeighborPointsLoop"
            /\ out.neighbor_id = in.iter.args[2].n
            /\ out.grid_name = in.iter.func.value.id
            /\ out.neighbor_target = in.target.id
     ELSE IF in.kind = "For"
       THEN /\ out.kind = "For"
            /\ out.target = in.target /\ out.iter = in.iter
     ELSE out.kind = in.kind
  /\ Len(Body(out)) = Len(Body(in))
  /\ \A i \in 1..Len(Body(in)) : Rewritten(Body(in)[i], Body(out)[i])

\* C15: every for-loop over <obj>.interior_points(...) becomes an
\* InteriorPointsLoop with the loop's target name, every for-loop over
\* <G>.neighbors(<x>, <k>) a NeighborPointsLoop with level k, grid name G and
\* the target name, each with its body translated, at any nesting depth; any
\* other for-loop stays a for-loop with its body translated.
C15_LoopRecognition ==
  (Translated /\ AllIdiom(pure.tree)) =>
    /\ pure.result.kind /= "raise"
    /\ Rewritten(pure.tree, pure.result)

C15_Witness ==
  /\ Translated
  /\ pure.tree.kind = "For" /\ pure.tree.body[1].kind = "For"
  /\ pure.result.kind = "InteriorPointsLoop"
  /\ pure.result.target = "p"
  /\ pure.result.body[1].kind = "NeighborPointsLoop"
  /\ pure.result.body[1].neighbor_id = 1
  /\ pure.result.body[1].grid_name = "g"
  /\ pure.result.body[1].neighbor_target = "p"

\* C16: the translator raises no error, whatever tree it is run on
C16_PermissiveFrontend ==
  Translated => pure.result.kind /= "raise"

\* the child nodes of a node
Kids(node) ==
  CASE node.kind = "For" -> << node.target, node.iter >> \o node.body
    [] node.kind \in {"If", "InteriorPointsLoop", "NeighborPointsLoop"} ->
         node.body
    [] node.kind \in {"Expr", "Attribute"} -> << node.value >>
    [] node.kind \in {"Call", "FunctionCall", "MathFunction"} ->
         << node.func >> \o node.args
    [] node.kind = "Tuple" -> node.elts
    [] OTHER -> <<>>

\* a call of distance or int
MathCall(node) ==
  \/ node.kind = "Call" /\ node.func.kind = "Name"
       /\ node.func.id \in {"distance", "int"}
  \/ node.kind = "FunctionCall" /\ Str(node.func) \in {"distance", "int"}

RECURSIVE HasMathCall(_)
HasMathCall(node) ==
  \/ MathCall(node)
  \/ \E i \in 1..Len(Kids(node)) : HasMathCall(Kids(node)[i])

\* C17: after the translator has run over the kernel body as transform
\* runs it, no call of distance or int is left: each is a MathFunction
C17_MathCallRecognition ==
  (pure.op = "transform" /\ pure.result.kind /= "raise") =>
    ~HasMathCall(pure.result)

\* the names that are keys of StencilKernel.backend_dict
TableNames == {"c", "omp", "ocl", "opencl", "python"}

\* C21: constructing a kernel (of a type that has a kernel method) with any
\* backend name of the lookup table gives a kernel object, never None, that
\* is bound to the backend the table gives for that name.
C21_BackendSelectionTotal ==
  (pure.op = "new" /\ pure.hasKernel /\ pure.backend \in TableNames) =>
    /\ pure.result.error = "none"
    /\ pure.result.kind \in {"StencilKernel", "SpecializedStencil"}
    /\ pure.result.backend = backend_dict(pure.backend)

====
